---- MODULE Spec2Model ----
(***************************************************************************)
(* Model of src/lib/uws-tracker.ts: the UWebSocketsTracker gateway.        *)
(* The four transport handlers registered in buildApplication (open,       *)
(* message, drain, close) run to completion on one event loop; each is one *)
(* action.  The tracker (registry) and the uWebSockets transport are the   *)
(* environment: their choices are the \E-bound inputs of the actions.      *)
(***************************************************************************)
EXTENDS Integers, Sequences, FiniteSets, TLC

\* ---------------------------------------------------------------- bounds
NumConns == 2      \* WebSocket handles the transport hands out
MaxMsgs  == 2      \* inbound messages the transport delivers in all
NumTraced == 1     \* sockets followed when identities are given ids
MaxRuns  == 2      \* calls of run()
MaxReports == 2    \* times the transport invokes one listen callback

Conns   == 1..NumConns
PeerIds == 1..(NumConns * MaxMsgs)   \* enough object identities for one per message
None    == 0                         \* `undefined`

\* ---------------------------------------------------------------- state
VARIABLES
    webSocketsCount,  \* this.webSocketsCount
    wsState,          \* transport state of each handle: new / open / closing / closed
    peer,             \* (ws as any).peer of each handle, None when the property is absent
    peerWs,           \* the ws captured by the sendMessage closure of each PeerContext
    created,          \* per handle: number of PeerContext objects its message handler allocated
    pmLog,            \* per handle: the identities passed to tracker.processMessage, in order
    dcLog,            \* per handle: the identities passed to tracker.disconnectPeer by its close handler
    closes,           \* per handle: number of times the close handler ran
    msgCount,         \* inbound messages delivered so far
    decoded,          \* per handle: delivered payloads that JSON.parse accepts
    lastOpened,       \* the handle opened last, while no handle has opened or closed since
    countBefore,      \* webSocketsCount just before the open handler of lastOpened ran
    last,             \* what the most recent handler invocation did
    given,            \* the settings argument of the constructor
    settings,         \* this.settings
    logLevel,         \* this.logLevel
    peerId,           \* the id property of each PeerContext: {} when absent, else {id}
    runs              \* per call of run(): the promise it returned and what listen reported

gw == <<webSocketsCount, wsState, peer, peerWs, created, pmLog, dcLog, closes>>
ctor == <<given, settings, logLevel>>
vars == <<webSocketsCount, wsState, peer, peerWs, created, pmLog, dcLog, closes,
          msgCount, decoded, lastOpened, countBefore, last,
          given, settings, logLevel, peerId, runs>>

\* The gateway-visible state as one value, so that a handler can call another.
Cur ==
    [webSocketsCount |-> webSocketsCount, wsState |-> wsState, peer |-> peer,
     peerWs |-> peerWs, created |-> created, pmLog |-> pmLog, dcLog |-> dcLog,
     closes |-> closes, thrown |-> "none", closeReq |-> FALSE, sends |-> <<>>,
     logLevel |-> logLevel, peerId |-> peerId, logs |-> <<>>, trace |-> <<>>]

Commit(S) ==
    /\ webSocketsCount' = S.webSocketsCount
    /\ wsState' = S.wsState
    /\ peer' = S.peer
    /\ peerWs' = S.peerWs
    /\ created' = S.created
    /\ pmLog' = S.pmLog
    /\ dcLog' = S.dcLog
    /\ closes' = S.closes

\* ---------------------------------------------------------------- settings
\* A JavaScript object is a function from the names of its own properties to
\* their values.
EmptyObj == <<>>

\* { ...d, ...g }: the properties of g over those of d.
Spread(d, g) ==
    [f \in DOMAIN d \cup DOMAIN g |-> IF f \in DOMAIN g THEN g[f] ELSE d[f]]

DefaultServer == [port |-> 8000, host |-> "0.0.0.0"]
DefaultWebsockets ==
    [path |-> "/", maxPayloadLength |-> 64 * 1024, idleTimeout |-> 240,
     compression |-> 1, logLevel |-> 0]

LogLevels == 0..2

\* Values a caller may supply, one or two per field, none equal to a default.
Supplied ==
    [port |-> {9000}, host |-> {"127.0.0.1"}, path |-> {"/ws"},
     maxPayloadLength |-> {1024}, idleTimeout |-> {60}, compression |-> {0},
     logLevel |-> LogLevels \ {0}]

\* Every object that has some of the fields, each with a supplied value.
RECURSIVE SectionObjects(_)
SectionObjects(fields) ==
    IF fields = {} THEN {EmptyObj}
    ELSE LET f == CHOOSE x \in fields : TRUE
             rest == SectionObjects(fields \ {f})
         IN  rest \cup {Spread(o, [n \in {f} |-> v]) : o \in rest, v \in Supplied[f]}

\* The settings argument: omitted, null, or an object with or without each
\* of its two sections.
SettingsObjects ==
    { [kind |-> "object", obj |-> o] :
        o \in { EmptyObj } \cup
              { [n \in {"server"} |-> sv] : sv \in SectionObjects({"port", "host"}) } \cup
              { [n \in {"websockets"} |-> wb] : wb \in SectionObjects(DOMAIN DefaultWebsockets) } \cup
              { [server |-> sv, websockets |-> wb] :
                    sv \in SectionObjects({"port", "host"}),
                    wb \in SectionObjects(DOMAIN DefaultWebsockets) } }
CallerSettings ==
    { [kind |-> "undefined", obj |-> EmptyObj], [kind |-> "null", obj |-> EmptyObj] }
        \cup SettingsObjects

\* Callers that set nothing but the log level.
LevelSettings ==
    { [kind |-> "object", obj |-> [n \in {"websockets"} |-> [f \in {"logLevel"} |-> l]]] :
        l \in LogLevels }

\* (settings && settings.<name>) ? settings.<name> : {}
Section(arg, name) ==
    IF arg.kind = "object" /\ name \in DOMAIN arg.obj THEN arg.obj[name] ELSE EmptyObj

\* a constructor that takes a supplied section whole in place of the defaults
ConstructorSettingsWholeSection(arg) ==
    [server |-> IF Section(arg, "server") # EmptyObj
                THEN Section(arg, "server") ELSE DefaultServer,
     websockets |-> IF Section(arg, "websockets") # EmptyObj
                    THEN Section(arg, "websockets") ELSE DefaultWebsockets]

\* constructor: this.settings = { server: {...}, websockets: {...} }
ConstructorSettings(arg) ==
    [server |-> Spread(DefaultServer, Section(arg, "server")),
     websockets |-> Spread(DefaultWebsockets, Section(arg, "websockets"))]

\* ---------------------------------------------------------------- codec
\* A payload is a sequence of lexical units of the bytes on the wire.
\* "xFF" is a byte that is not valid UTF-8.
Payloads ==
    { <<"{", "str", ":", "str", "}">>,     \* {"action":"hello"}
      <<"null">>,                          \* null
      <<"num">>,                           \* 42
      <<"{", "ident", "ident">>,           \* {not json
      <<"{", "str", ":", "xFF", "}">>,     \* invalid UTF-8 where a value belongs
      <<"[", "str", ",", "]">> }           \* ["a",]

\* StringDecoder.end(bytes): UTF-8 decoding never throws; an invalid byte
\* becomes U+FFFD.
DecoderEnd(bytes) ==
    [i \in 1..Len(bytes) |-> IF bytes[i] = "xFF" THEN "uFFFD" ELSE bytes[i]]

SyntaxError == [ok |-> FALSE, next |-> 0, kind |-> "none"]

RECURSIVE ParseValue(_, _), ParseMembers(_, _), ParseElements(_, _)

\* JSON value starting at position i.
ParseValue(s, i) ==
    IF i > Len(s) THEN SyntaxError
    ELSE CASE s[i] = "str"  -> [ok |-> TRUE, next |-> i + 1, kind |-> "string"]
           [] s[i] = "num"  -> [ok |-> TRUE, next |-> i + 1, kind |-> "number"]
           [] s[i] = "null" -> [ok |-> TRUE, next |-> i + 1, kind |-> "null"]
           [] s[i] = "{" ->
                IF i + 1 <= Len(s) /\ s[i + 1] = "}"
                THEN [ok |-> TRUE, next |-> i + 2, kind |-> "object"]
                ELSE ParseMembers(s, i + 1)
           [] s[i] = "[" ->
                IF i + 1 <= Len(s) /\ s[i + 1] = "]"
                THEN [ok |-> TRUE, next |-> i + 2, kind |-> "array"]
                ELSE ParseElements(s, i + 1)
           [] OTHER -> SyntaxError

\* member (',' member)* '}' starting at position i.
ParseMembers(s, i) ==
    IF i + 1 > Len(s) \/ s[i] # "str" \/ s[i + 1] # ":" THEN SyntaxError
    ELSE LET v == ParseValue(s, i + 2) IN
         IF ~v.ok \/ v.next > Len(s) THEN SyntaxError
         ELSE IF s[v.next] = "}" THEN [ok |-> TRUE, next |-> v.next + 1, kind |-> "object"]
         ELSE IF s[v.next] = "," THEN ParseMembers(s, v.next + 1)
         ELSE SyntaxError

\* value (',' value)* ']' starting at position i.
ParseElements(s, i) ==
    LET v == ParseValue(s, i) IN
    IF ~v.ok \/ v.next > Len(s) THEN SyntaxError
    ELSE IF s[v.next] = "]" THEN [ok |-> TRUE, next |-> v.next + 1, kind |-> "array"]
    ELSE IF s[v.next] = "," THEN ParseElements(s, v.next + 1)
    ELSE SyntaxError

\* JSON.parse(text): any complete JSON value is accepted, whatever its
\* top-level shape; anything else throws SyntaxError.
JSONparse(s) ==
    LET v == ParseValue(s, 1) IN
    IF v.ok /\ v.next = Len(s) + 1 THEN v ELSE SyntaxError

\* ---------------------------------------------------------------- handlers
\* Values the environment may choose.
PmOutcomes == {"ok", "TrackerError", "Error"}   \* what tracker.processMessage does
DcOutcomes == {"ok", "Error"}                   \* what tracker.disconnectPeer does
IdValues == {<<>>, <<97, 98>>, <<99>>}          \* ids the tracker may assign: "", "ab", "c"

RECURSIVE SumUpTo(_, _)
SumUpTo(f, n) == IF n = 0 THEN 0 ELSE f[n] + SumUpTo(f, n - 1)

\* Identities the tracker has been handed (arguments of processMessage).
Held(S) == UNION {{S.pmLog[c][i] : i \in 1..Len(S.pmLog[c])} : c \in Conns}

\* if (this.logLevel === level) console.<method>(entry)
Log(S, level, entry) ==
    IF S.logLevel = level THEN [S EXCEPT !.logs = Append(@, entry)] ELSE S

\* One more step of the handler that is running.
Mark(S, ev, c, p) ==
    [S EXCEPT !.trace = Append(@, [ev |-> ev, arg |-> p, bound |-> S.peer[c]])]

\* Buffer.from(id).toString("hex"): two hex digits per byte.
HexDigits == <<"0", "1", "2", "3", "4", "5", "6", "7", "8", "9", "a", "b", "c", "d", "e", "f">>
ToHex(bytes) ==
    [i \in 1..(2 * Len(bytes)) |->
        IF i % 2 = 1 THEN HexDigits[(bytes[(i + 1) \div 2] \div 16) + 1]
                     ELSE HexDigits[(bytes[i \div 2] % 16) + 1]]

UnknownPeer == [text |-> "unknown peer", hex |-> <<>>]
NoKey == [text |-> "", hex |-> <<>>]

\* (peer && peer.id) ? Buffer.from(peer.id).toString("hex") : "unknown peer"
\* An absent id and an empty id are both falsy.
PeerKey(S, p) ==
    IF p # None /\ S.peerId[p] # {} /\ (\A v \in S.peerId[p] : Len(v) > 0)
    THEN [text |-> "hex", hex |-> ToHex(CHOOSE v \in S.peerId[p] : TRUE)]
    ELSE UnknownPeer

\* sendMessage that writes to every socket that has a binding
SendMessageBroadcast(S, p) ==
    LET targets == {c \in Conns : S.peer[c] # None}
        S1 == [S EXCEPT !.sends = @ \o
                  [i \in 1..Cardinality(targets) |->
                      LET c == CHOOSE x \in targets :
                                 Cardinality({y \in targets : y < x}) = i - 1
                      IN  [ws |-> c, state |-> S.wsState[c]]]]
    IN  Log(S1, 2, [tag |-> "out", key |-> PeerKey(S1, p)])

\* sendMessage that keys its trace by the id the identity had when created
SendMessageCapturedId(S, p) ==
    LET ws == S.peerWs[p]
        S1 == [S EXCEPT !.sends = Append(@, [ws |-> ws, state |-> S.wsState[ws]])]
    IN  Log(S1, 2, [tag |-> "out", key |-> UnknownPeer])

\* peer.sendMessage(json): ws.send(JSON.stringify(json), false, false) on the
\* ws captured when the PeerContext was created, whatever that ws is now.
\* Each ws.send call is noted with the transport state of the socket.
SendMessage(S, p) ==
    LET ws == S.peerWs[p]
        S1 == [S EXCEPT !.sends = Append(@, [ws |-> ws, state |-> S.wsState[ws]])]
    IN  Log(S1, 2, [tag |-> "out", key |-> PeerKey(S1, p)])

\* tracker.disconnectPeer(peer), called from the close handler of c.  The
\* tracker may use the identity it is handed, and may throw.
DisconnectPeer(S, c, p, dc, dcSend) ==
    LET S1 == Mark([S EXCEPT !.dcLog[c] = Append(@, p)], "disconnectPeer", c, p)
        S2 == IF dcSend THEN SendMessage(S1, p) ELSE S1
    IN  [S2 EXCEPT !.thrown = IF dc = "Error" THEN "DisconnectError" ELSE @]

\* if (this.logLevel === 1) console.info("ws closed with code", code), which
\* is not reached when disconnectPeer threw.
LogClosed(S) ==
    IF S.thrown = "DisconnectError" THEN S
    ELSE Log(S, 1, [tag |-> "ws closed with code", key |-> NoKey])

\* close handler that forgets this.webSocketsCount--
CloseHandlerNoDecrement(S, c, dc, dcSend) ==
    LET S1 == [S EXCEPT !.closes[c] = @ + 1]
        p  == S1.peer[c]
    IN  IF p # None
        THEN LogClosed(DisconnectPeer([S1 EXCEPT !.peer[c] = None], c, p, dc, dcSend))
        ELSE LogClosed(S1)

\* close handler that drops the binding without telling the tracker
CloseHandlerNoDisconnect(S, c, dc, dcSend) ==
    LogClosed([S EXCEPT !.webSocketsCount = @ - 1, !.closes[c] = @ + 1, !.peer[c] = None])

\* close handler without the `peer !== undefined` test
CloseHandlerNoTest(S, c, dc, dcSend) ==
    LET S1 == [S EXCEPT !.webSocketsCount = @ - 1, !.closes[c] = @ + 1] IN
    LogClosed(DisconnectPeer([S1 EXCEPT !.peer[c] = None], c, S1.peer[c], dc, FALSE))

\* close handler that keeps the binding in one variable shared by all sockets
CloseHandlerSharedPeer(S, c, dc, dcSend) ==
    LET S1 == [S EXCEPT !.webSocketsCount = @ - 1, !.closes[c] = @ + 1]
        p  == S1.peer[c]
    IN  IF p # None
        THEN LogClosed(DisconnectPeer([S1 EXCEPT !.peer = [d \in Conns |-> None]],
                                      c, p, dc, dcSend))
        ELSE LogClosed(S1)

\* close handler that tells the tracker first and deletes ws.peer afterwards
CloseHandlerDeleteAfter(S, c, dc, dcSend) ==
    LET S1 == [S EXCEPT !.webSocketsCount = @ - 1, !.closes[c] = @ + 1]
        p  == S1.peer[c]
    IN  IF p # None
        THEN LET S2 == DisconnectPeer(S1, c, p, dc, dcSend) IN
             IF S2.thrown = "DisconnectError" THEN S2
             ELSE LogClosed([S2 EXCEPT !.peer[c] = None])
        ELSE LogClosed(S1)

\* close: (ws, code, message) => { ... }
CloseHandler(S, c, dc, dcSend) ==
    LET S1 == [S EXCEPT !.webSocketsCount = @ - 1, !.closes[c] = @ + 1]
        p  == S1.peer[c]
    IN  IF p # None
        THEN LogClosed(DisconnectPeer([S1 EXCEPT !.peer[c] = None], c, p, dc, dcSend))
        ELSE LogClosed(S1)

\* The transport closes the socket and fires its close event.
TransportClose(S, c, dc, dcSend) ==
    CloseHandler([S EXCEPT !.wsState[c] = "closed"], c, dc, dcSend)

\* ws.close(): the transport either runs the close handler inside the call
\* (sync) or marks the socket closing and delivers the close event later.
WsClose(S, c, sync, dc, dcSend) ==
    LET S1 == Mark([S EXCEPT !.closeReq = TRUE], "ws.close", c, None) IN
    IF sync THEN TransportClose(S1, c, dc, dcSend)
    ELSE [S1 EXCEPT !.wsState[c] = "closing"]

\* peer = { sendMessage: ... }: an object distinct from every other one.
NewPeer(S, c) == (c - 1) * MaxMsgs + S.created[c] + 1

\* binder that builds a fresh PeerContext for every message
BindPeerAlways(S, c) ==
    LET p == NewPeer(S, c) IN
    Mark([S EXCEPT !.created[c] = @ + 1, !.peerWs[p] = c, !.peer[c] = p], "bind", c, p)

\* let peer = ws.peer; if (peer === undefined) { peer = {sendMessage}; ws.peer = peer }
BindPeer(S, c) ==
    IF S.peer[c] = None
    THEN LET p == NewPeer(S, c) IN
         Mark([S EXCEPT !.created[c] = @ + 1, !.peerWs[p] = c, !.peer[c] = p], "bind", c, p)
    ELSE S

\* tracker.processMessage(json, peer) for a message that arrived on c.  The
\* tracker may call sendMessage of any identity it holds (pmSend) and ends
\* normally, with a TrackerError or with another error (pm).
ProcessMessage(S, c, p, pmSend) ==
    LET S1 == Mark([S EXCEPT !.pmLog[c] = Append(@, p)], "processMessage", c, p) IN
    IF pmSend # None /\ pmSend \in Held(S1) THEN SendMessage(S1, pmSend) ELSE S1

\* if (this.logLevel === 1) console.log("failed to process message from the peer:", e)
LogRejected(S) == Log(S, 1, [tag |-> "failed to process message", key |-> NoKey])

\* catch block that also counts the socket out before closing it
DispatchDecrements(S, c, p, pm, pmSend, sync, dc, dcSend) ==
    LET S1 == ProcessMessage(S, c, p, pmSend) IN
    CASE pm = "ok"           -> S1
      [] pm = "TrackerError" ->
            WsClose([LogRejected(S1) EXCEPT !.webSocketsCount = @ - 1], c, sync, dc, dcSend)
      [] OTHER               -> [S1 EXCEPT !.thrown = pm]

\* catch block that closes the socket on every error and rethrows none
DispatchCatchAll(S, c, p, pm, pmSend, sync, dc, dcSend) ==
    LET S1 == ProcessMessage(S, c, p, pmSend) IN
    IF pm = "ok" THEN S1 ELSE WsClose(LogRejected(S1), c, sync, dc, dcSend)

\* catch block that closes the socket before it rethrows
DispatchCloseThenThrow(S, c, p, pm, pmSend, sync, dc, dcSend) ==
    LET S1 == ProcessMessage(S, c, p, pmSend) IN
    CASE pm = "ok"           -> S1
      [] pm = "TrackerError" -> WsClose(LogRejected(S1), c, sync, dc, dcSend)
      [] OTHER               -> [WsClose(S1, c, sync, dc, dcSend) EXCEPT !.thrown = pm]

\* catch block that takes the binding of a rejected peer away before closing
DispatchUnbindRejected(S, c, p, pm, pmSend, sync, dc, dcSend) ==
    LET S1 == ProcessMessage(S, c, p, pmSend) IN
    CASE pm = "ok"           -> S1
      [] pm = "TrackerError" ->
            WsClose([LogRejected(S1) EXCEPT !.peer[c] = None], c, sync, dc, dcSend)
      [] OTHER               -> [S1 EXCEPT !.thrown = pm]

\* try { this.tracker.processMessage(json, peer) } catch (e) { ... }
Dispatch(S, c, p, pm, pmSend, sync, dc, dcSend) ==
    LET S1 == ProcessMessage(S, c, p, pmSend) IN
    CASE pm = "ok"           -> S1
      [] pm = "TrackerError" -> WsClose(LogRejected(S1), c, sync, dc, dcSend)
      [] OTHER               -> [S1 EXCEPT !.thrown = pm]

\* if (this.logLevel === 1) console.info("ws message of size", message.byteLength)
LogMessage(S) == Log(S, 1, [tag |-> "ws message of size", key |-> NoKey])
\* if (this.logLevel === 1) console.warn("failed to parse JSON message", e)
LogParseFailure(S) == Log(S, 1, [tag |-> "failed to parse JSON message", key |-> NoKey])
\* if (this.logLevel === 2) console.log("in", <key of ws.peer>, json)
LogIn(S, c) == Log(S, 2, [tag |-> "in", key |-> PeerKey(S, S.peer[c])])

\* message handler whose parse failure path returns without ws.close()
MessageHandlerNoClose(S, c, bytes, pm, pmSend, sync, dc, dcSend) ==
    LET json == JSONparse(DecoderEnd(bytes)) IN
    IF ~json.ok
    THEN LogParseFailure(LogMessage(S))
    ELSE LET S1 == BindPeer(LogIn(LogMessage(S), c), c) IN
         Dispatch(S1, c, S1.peer[c], pm, pmSend, sync, dc, dcSend)

\* message handler that dispatches with ws.peer as it found it and binds afterwards
MessageHandlerBindLate(S, c, bytes, pm, pmSend, sync, dc, dcSend) ==
    LET json == JSONparse(DecoderEnd(bytes)) IN
    IF ~json.ok
    THEN WsClose(LogParseFailure(LogMessage(S)), c, sync, dc, dcSend)
    ELSE LET S1 == LogIn(LogMessage(S), c)
             S2 == Dispatch(S1, c, S1.peer[c], pm, pmSend, sync, dc, dcSend)
         IN  IF S2.wsState[c] = "open" /\ S2.thrown = "none" THEN BindPeer(S2, c) ELSE S2

\* message handler whose parse failure path lacks the `return`
MessageHandlerNoReturn(S, c, bytes, pm, pmSend, sync, dc, dcSend) ==
    LET json == JSONparse(DecoderEnd(bytes))
        S0 == IF ~json.ok
              THEN WsClose(LogParseFailure(LogMessage(S)), c, FALSE, dc, dcSend)
              ELSE LogMessage(S)
        S1 == BindPeer(LogIn(S0, c), c)
    IN  Dispatch(S1, c, S1.peer[c], pm, pmSend, sync, dc, dcSend)

\* message: (ws, message, isBinary) => { ... }
MessageHandler(S, c, bytes, pm, pmSend, sync, dc, dcSend) ==
    LET json == JSONparse(DecoderEnd(bytes)) IN
    IF ~json.ok
    THEN WsClose(LogParseFailure(LogMessage(S)), c, sync, dc, dcSend)
    ELSE LET S1 == BindPeer(LogIn(LogMessage(S), c), c) IN
         Dispatch(S1, c, S1.peer[c], pm, pmSend, sync, dc, dcSend)

\* drain: (ws) => { if (this.logLevel === 1) console.info("ws backpressure", ...) }
DrainHandler(S, c) == Log(S, 1, [tag |-> "ws backpressure", key |-> NoKey])

\* open: (ws, request) => { this.webSocketsCount++; if (this.logLevel === 1) ... }
OpenHandler(S, c) ==
    Log([S EXCEPT !.webSocketsCount = @ + 1], 1, [tag |-> "ws connected via URL", key |-> NoKey])

\* A call of run() not made yet.
NewRun == [called |-> FALSE, promise |-> "pending", error |-> <<>>, reports |-> <<>>]

\* new Promise(...): resolve and reject act on a pending promise only.
Resolve(run) ==
    IF run.promise = "pending" THEN [run EXCEPT !.promise = "resolved"] ELSE run
Reject(run, e) ==
    IF run.promise = "pending" THEN [run EXCEPT !.promise = "rejected", !.error = e] ELSE run

\* listen callback that takes any report for success
OnListenAlwaysResolve(run, token, cfg) ==
    Resolve([run EXCEPT !.reports = Append(@, IF token THEN "token" ELSE "no token")])

\* (token) => { if (token) resolve(); else reject(new Error(`failed to listen to ${host}:${port}`)) }
OnListen(run, token, cfg) ==
    LET run1 == [run EXCEPT !.reports = Append(@, IF token THEN "token" ELSE "no token")] IN
    IF token THEN Resolve(run1)
    ELSE Reject(run1, <<"failed to listen to", cfg.server.host, cfg.server.port>>)

\* public async run(): the promise handed to the caller.  When app.listen
\* throws, the async function rejects it with what was thrown.
RunCall(throws) ==
    IF throws
    THEN [called |-> TRUE, promise |-> "rejected", error |-> <<"listen threw">>,
          reports |-> <<"throw">>]
    ELSE [NewRun EXCEPT !.called = TRUE]

NoEvent == [op |-> "none", ws |-> None, id |-> None, json |-> "none",
            pm |-> "none", closeReq |-> FALSE, thrown |-> "none", sends |-> <<>>,
            logs |-> <<>>, trace |-> <<>>]

\* this.webSocketsCount = 0, no socket yet, no call of run() yet
InitGateway ==
    /\ webSocketsCount = 0
    /\ wsState = [c \in Conns |-> "new"]
    /\ peer = [c \in Conns |-> None]
    /\ peerWs = [p \in PeerIds |-> None]
    /\ created = [c \in Conns |-> 0]
    /\ pmLog = [c \in Conns |-> <<>>]
    /\ dcLog = [c \in Conns |-> <<>>]
    /\ closes = [c \in Conns |-> 0]
    /\ msgCount = 0
    /\ decoded = [c \in Conns |-> 0]
    /\ lastOpened = None
    /\ countBefore = 0
    /\ last = NoEvent
    /\ peerId = [p \in PeerIds |-> {}]
    /\ runs = [r \in 1..MaxRuns |-> NewRun]

\* The state after `new UWebSocketsTracker(tracker, arg)`.
Constructed(arg) ==
    /\ given = arg
    /\ settings = ConstructorSettings(arg)
    /\ logLevel = ConstructorSettings(arg).websockets.logLevel
    /\ InitGateway

\* new UWebSocketsTracker(tracker): every setting at its default.
Init == Constructed([kind |-> "undefined", obj |-> EmptyObj])
\* Constructed at any of the log levels.
InitTrace == \E arg \in LevelSettings : Constructed(arg)
\* Constructed with any settings.
InitStart == \E arg \in CallerSettings : Constructed(arg)

\* An open event for a socket the transport has just accepted.
Open(c) ==
    /\ wsState[c] = "new"
    /\ LET S == OpenHandler([Cur EXCEPT !.wsState[c] = "open"], c) IN
         /\ Commit(S)
         /\ last' = [NoEvent EXCEPT !.op = "open", !.ws = c, !.logs = S.logs]
    /\ lastOpened' = c
    /\ countBefore' = webSocketsCount
    /\ UNCHANGED <<msgCount, decoded, ctor, peerId, runs>>

\* A message event on an open socket.  An input the handler does not read
\* on the path it takes is fixed, so that each behaviour is generated once:
\* the tracker's choices when the payload does not parse, the transport's
\* choice when ws.close() is not called, the choices of disconnectPeer when
\* the close handler does not run or finds no identity.
Message(c) ==
    /\ wsState[c] = "open"
    /\ msgCount < MaxMsgs
    /\ \E bytes \in Payloads :
       LET ok == JSONparse(DecoderEnd(bytes)).ok IN
       \E pm \in IF ok THEN PmOutcomes ELSE {"ok"} :
       \E pmSend \in IF ok THEN Held(Cur) \cup {BindPeer(Cur, c).peer[c], None}
                     ELSE {None} :
       \E sync \in IF ~ok \/ pm = "TrackerError" THEN BOOLEAN ELSE {FALSE} :
       \E dc \in IF sync /\ (ok \/ peer[c] # None) THEN DcOutcomes ELSE {"ok"} :
       \E dcSend \in IF sync /\ (ok \/ peer[c] # None) THEN BOOLEAN ELSE {FALSE} :
         LET S == MessageHandler(Cur, c, bytes, pm, pmSend, sync, dc, dcSend) IN
         /\ Commit(S)
         /\ msgCount' = msgCount + 1
         /\ decoded' = [decoded EXCEPT ![c] = IF ok THEN @ + 1 ELSE @]
         /\ lastOpened' = IF S.closes[c] # closes[c] THEN None ELSE lastOpened
         /\ countBefore' = IF S.closes[c] # closes[c] THEN 0 ELSE countBefore
         /\ last' = [op |-> "message", ws |-> c, id |-> S.peer[c],
                     json |-> JSONparse(DecoderEnd(bytes)).kind,
                     pm |-> IF S.pmLog[c] # pmLog[c] THEN pm ELSE "none",
                     closeReq |-> S.closeReq, thrown |-> S.thrown, sends |-> S.sends,
                     logs |-> S.logs, trace |-> S.trace]
    /\ UNCHANGED <<ctor, peerId, runs>>

\* A drain event on an open socket: diagnostics only.
Drain(c) ==
    /\ wsState[c] = "open"
    /\ LET S == DrainHandler(Cur, c) IN
         /\ Commit(S)
         /\ last' = [NoEvent EXCEPT !.op = "drain", !.ws = c, !.logs = S.logs]
    /\ UNCHANGED <<msgCount, decoded, lastOpened, countBefore, ctor, peerId, runs>>

\* The close event of a socket: the remote end closed it, or an earlier
\* ws.close() is now delivered.
Close(c) ==
    /\ wsState[c] \in {"open", "closing"}
    /\ \E dc \in IF peer[c] # None THEN DcOutcomes ELSE {"ok"} :
       \E dcSend \in IF peer[c] # None THEN BOOLEAN ELSE {FALSE} :
         LET S == TransportClose(Cur, c, dc, dcSend) IN
         /\ Commit(S)
         /\ lastOpened' = None
         /\ countBefore' = 0
         /\ last' = [NoEvent EXCEPT !.op = "close", !.ws = c, !.thrown = S.thrown,
                                    !.sends = S.sends, !.logs = S.logs,
                                    !.trace = S.trace]
         /\ UNCHANGED <<msgCount, decoded, ctor, peerId, runs>>

\* The tracker uses the send capability of an identity it holds, outside
\* any handler of the gateway.
RegistrySend(p) ==
    /\ p \in Held(Cur)
    /\ LET S == SendMessage(Cur, p) IN
         /\ Commit(S)
         /\ last' = [NoEvent EXCEPT !.op = "send", !.id = p, !.sends = S.sends,
                                    !.logs = S.logs]
    /\ UNCHANGED <<msgCount, decoded, lastOpened, countBefore, ctor, peerId, runs>>

\* The tracker assigns or changes the id of an identity it holds.
RegistrySetId(p, v) ==
    /\ p \in Held(Cur)
    /\ peerId[p] # {v}
    /\ peerId' = [peerId EXCEPT ![p] = {v}]
    /\ last' = [NoEvent EXCEPT !.op = "setId", !.id = p]
    /\ UNCHANGED <<gw, msgCount, decoded, lastOpened, countBefore, ctor, runs>>

\* A call of run(): app.listen either throws or takes the callback.
Run(r) ==
    /\ ~runs[r].called
    /\ IF r = 1 THEN TRUE ELSE runs[r - 1].called     \* calls are numbered in order
    /\ \E throws \in BOOLEAN : runs' = [runs EXCEPT ![r] = RunCall(throws)]
    /\ UNCHANGED <<gw, msgCount, decoded, lastOpened, countBefore, last, ctor, peerId>>

\* The transport invokes the listen callback of a call of run().
ListenCallback(r) ==
    /\ runs[r].called
    /\ runs[r].reports # <<"throw">>
    /\ Len(runs[r].reports) < MaxReports
    /\ \E token \in BOOLEAN : runs' = [runs EXCEPT ![r] = OnListen(@, token, settings)]
    /\ UNCHANGED <<gw, msgCount, decoded, lastOpened, countBefore, last, ctor, peerId>>

Next ==
    \/ \E c \in Conns : Open(c)
    \/ \E c \in Conns : Message(c)
    \/ \E c \in Conns : Drain(c)
    \/ \E c \in Conns : Close(c)
    \/ \E p \in PeerIds : RegistrySend(p)

\* The sockets 1..NumTraced, with a tracker that also assigns ids.
Traced == 1..NumTraced
NextTrace ==
    \/ \E c \in Traced : Open(c)
    \/ \E c \in Traced : Message(c)
    \/ \E c \in Traced : Drain(c)
    \/ \E c \in Traced : Close(c)
    \/ \E p \in PeerIds : RegistrySend(p)
    \/ \E p \in PeerIds, v \in IdValues : RegistrySetId(p, v)

\* Construction with any settings, then calls of run().
NextStart ==
    \/ \E r \in 1..MaxRuns : Run(r)
    \/ \E r \in 1..MaxRuns : ListenCallback(r)

Spec == Init /\ [][Next]_vars
SpecTrace == InitTrace /\ [][NextTrace]_vars
SpecStart == InitStart /\ [][NextStart]_vars

\* ---------------------------------------------------------------- properties
Live(c) == wsState[c] \in {"open", "closing"}
Opened == {c \in Conns : wsState[c] # "new"}
MessageStep(c) == msgCount' = msgCount + 1 /\ last'.ws = c
CloseRan(c) == closes'[c] # closes[c]
Same(log, p) == \A i \in 1..Len(log) : log[i] = p

\* C1: webSocketsCount equals the number of sockets currently open, which is
\* the number of open events minus the number of close events, and it is
\* never negative, whatever other events are interleaved.
C1_CountIsOpenSockets ==
    /\ webSocketsCount = Cardinality({c \in Conns : Live(c)})
    /\ webSocketsCount = Cardinality(Opened) - SumUpTo(closes, NumConns)
    /\ webSocketsCount >= 0

C1_Witness ==
    \E c, d \in Conns :
        /\ wsState[c] = "closed" /\ wsState[d] = "open"
        /\ webSocketsCount = 1
        /\ last.op = "message" /\ last.ws = c /\ last.closeReq

\* C2: a socket gets at most one PeerContext in its whole life: the first
\* payload that decodes creates it and every processMessage call for the
\* socket is passed that one object.
C2_OneIdentityPerSocket ==
    \A c \in Conns :
        /\ created[c] <= 1
        /\ created[c] = (IF decoded[c] > 0 THEN 1 ELSE 0)
        /\ Len(pmLog[c]) = decoded[c]
        /\ pmLog[c] # <<>> => peerWs[pmLog[c][1]] = c /\ Same(pmLog[c], pmLog[c][1])

C2_Witness ==
    \E c \in Conns : Len(pmLog[c]) = 2 /\ created[c] = 1 /\ peer[c] = pmLog[c][2]

\* C3: a socket that delivered at least one decodable payload and is then
\* closed made exactly one disconnectPeer call, with the object that every
\* one of its processMessage calls was passed; before its close it made none.
C3_OneDisconnectSameIdentity ==
    \A c \in Conns :
        /\ Len(dcLog[c]) <= 1
        /\ wsState[c] # "closed" => dcLog[c] = <<>>
        /\ (decoded[c] > 0 /\ wsState[c] = "closed") =>
              /\ Len(dcLog[c]) = 1
              /\ pmLog[c] # <<>>
              /\ Same(pmLog[c], dcLog[c][1])

\* ... closed by the decode failure of a later message
C3_Witness ==
    /\ last.op = "message" /\ last.json = "none"
    /\ wsState[last.ws] = "closed"
    /\ decoded[last.ws] = 1
    /\ dcLog[last.ws] = <<pmLog[last.ws][1]>>

\* C4: a socket that never delivered a decodable payload never gets a
\* PeerContext and never causes a disconnectPeer call.
C4_NoIdentityNoDisconnect ==
    \A c \in Conns :
        decoded[c] = 0 => created[c] = 0 /\ peer[c] = None /\ dcLog[c] = <<>>

C4_Witness ==
    /\ last.op = "message" /\ last.json = "none"
    /\ wsState[last.ws] = "closed" /\ closes[last.ws] = 1
    /\ decoded[last.ws] = 0

\* C5: a payload that fails to decode makes the handler call ws.close(), call
\* processMessage not at all and create no PeerContext; and when the close
\* handler of the socket runs while no other socket has opened or closed
\* since it opened, webSocketsCount is back at its value before the open.
C5_DecodeFailure ==
    [][\A c \in Conns :
          /\ (MessageStep(c) /\ last'.json = "none") =>
                /\ last'.closeReq
                /\ wsState'[c] \in {"closing", "closed"}
                /\ pmLog' = pmLog
                /\ created' = created
                /\ peer'[c] \in {peer[c], None}
          /\ (CloseRan(c) /\ lastOpened = c) => webSocketsCount' = countBefore
      ]_vars

C5_Witness ==
    \E d \in Conns :
        /\ last.op = "message" /\ last.json = "none" /\ last.closeReq
        /\ wsState[last.ws] = "closed"
        /\ d # last.ws /\ wsState[d] = "open"
        /\ webSocketsCount = 1

\* C6: a TrackerError raised by processMessage does not leave the message
\* handler, the handler calls ws.close(), and webSocketsCount goes down only
\* where the close handler of a socket runs, which it does at most once per
\* socket: the catch block itself does not touch the count.
C6_RejectionAbsorbed ==
    [][\A c \in Conns :
          /\ (MessageStep(c) /\ last'.pm = "TrackerError") =>
                /\ last'.thrown \notin {"TrackerError", "Error"}
                /\ last'.closeReq
                /\ wsState'[c] \in {"closing", "closed"}
                /\ webSocketsCount' =
                      webSocketsCount - (IF wsState'[c] = "closed" THEN 1 ELSE 0)
          /\ (wsState[c] = "closing" /\ CloseRan(c)) =>
                webSocketsCount' = webSocketsCount - 1
          /\ closes'[c] <= 1
      ]_vars

\* ... the rejected socket was closed inside ws.close() and counted out once
C6_Witness ==
    /\ last.op = "message" /\ last.pm = "TrackerError"
    /\ last.closeReq /\ last.thrown = "none"
    /\ closes[last.ws] = 1
    /\ webSocketsCount = 0

\* C7: handling a decode failure or a TrackerError on socket c, and the
\* close of c, leaves every other socket d as it was: d keeps its transport
\* state and its binding, no disconnectPeer call is made for d or with d's
\* identity, and the count drops by exactly one when c's close handler runs.
C7_ErrorsStayOnTheirSocket ==
    [][\A c \in Conns :
          ((MessageStep(c) /\ last'.closeReq) \/ CloseRan(c)) =>
              /\ \A d \in Conns \ {c} :
                     /\ wsState'[d] = wsState[d]
                     /\ peer'[d] = peer[d]
                     /\ dcLog'[d] = dcLog[d]
                     /\ closes'[d] = closes[d]
                     /\ peer[d] # None =>
                           \A i \in 1..Len(dcLog'[c]) : dcLog'[c][i] # peer[d]
              /\ webSocketsCount' = webSocketsCount - (IF CloseRan(c) THEN 1 ELSE 0)
      ]_vars

\* ... two sockets open, one rejected and closed, the other open and bound
C7_Witness ==
    \E d \in Conns :
        /\ last.op = "message" /\ last.pm = "TrackerError"
        /\ wsState[last.ws] = "closed"
        /\ d # last.ws /\ wsState[d] = "open" /\ peer[d] # None
        /\ webSocketsCount = 1

\* C8: an error of processMessage that is not a TrackerError leaves the
\* message handler as it was raised, while a TrackerError never leaves it.
C8_UnexpectedPropagates ==
    last.op = "message" =>
        /\ last.pm = "Error" => last.thrown = "Error"
        /\ last.pm = "TrackerError" => last.thrown # "TrackerError"

C8_Witness ==
    last.op = "message" /\ last.pm = "Error" /\ last.thrown = "Error"

\* C9: once the close handler of a socket has run, ws.send is never called
\* on that socket again, even when the tracker still holds the identity and
\* uses its sendMessage.
C9_NoSendOnClosedSocket ==
    \A i \in 1..Len(last.sends) : last.sends[i].state # "closed"

\* C10: every payload that is not a well-formed structured message, be it
\* malformed text or a complete value of the wrong top-level shape such as
\* null or a number, is handled as a decode failure: ws.close() is called
\* and processMessage is not.
C10_WrongShapeIsDecodeError ==
    (last.op = "message" /\ last.json \in {"none", "null", "number", "string"}) =>
        last.closeReq /\ last.pm = "none"

\* ---------------------------------------------------------------- properties, continued
\* The socket whose message handler allocated identity p.
CreatedOn(p) == ((p - 1) \div MaxMsgs) + 1
Events(ev) == {i \in 1..Len(last.trace) : last.trace[i].ev = ev}
Supplies(sec, f) ==
    given.kind = "object" /\ sec \in DOMAIN given.obj /\ f \in DOMAIN given.obj[sec]

\* C11: a socket has at most one identity bound, no identity is bound to two
\* sockets, an identity is bound only to the socket it was created on, and
\* its sendMessage calls ws.send once, on that socket and on no other.
C11_IdentityBelongsToOneSocket ==
    /\ \A c, d \in Conns : (c # d /\ peer[c] # None) => peer[c] # peer[d]
    /\ \A c \in Conns : peer[c] # None => peerWs[peer[c]] = c /\ CreatedOn(peer[c]) = c
    /\ \A p \in PeerIds : peerWs[p] # None => peerWs[p] = CreatedOn(p)
    /\ last.op = "send" =>
          /\ Len(last.sends) = 1
          /\ last.sends[1].ws = CreatedOn(last.id)
    /\ last.op = "close" => \A i \in 1..Len(last.sends) : last.sends[i].ws = last.ws

\* ... a send through the identity of an open socket while another is bound
C11_Witness ==
    \E d \in Conns :
        /\ last.op = "send" /\ last.sends[1].state = "open"
        /\ d # last.sends[1].ws /\ peer[d] # None /\ wsState[d] = "open"

\* C12: a call of run() has one outcome, fixed by the first thing listen
\* reports: success for a token, failure naming host and port for a callback
\* without token, failure when listen throws; it is pending only while
\* nothing was reported, and once settled it never changes.
C12_RunSettlesOnce ==
    /\ [](\A r \in 1..MaxRuns :
            /\ runs[r].promise = "pending" <=> runs[r].reports = <<>>
            /\ runs[r].reports # <<>> =>
                 CASE runs[r].reports[1] = "token" ->
                        runs[r].promise = "resolved" /\ runs[r].error = <<>>
                   [] runs[r].reports[1] = "no token" ->
                        /\ runs[r].promise = "rejected"
                        /\ runs[r].error =
                             <<"failed to listen to",
                               IF Supplies("server", "host") THEN given.obj.server.host
                               ELSE "0.0.0.0",
                               IF Supplies("server", "port") THEN given.obj.server.port
                               ELSE 8000>>
                   [] OTHER -> runs[r].promise = "rejected")
    /\ [][\A r \in 1..MaxRuns :
            runs[r].promise # "pending" =>
                runs'[r].promise = runs[r].promise /\ runs'[r].error = runs[r].error]_vars

\* ... a failure report followed by a success report: still the failure
C12_Witness ==
    \E r \in 1..MaxRuns :
        /\ runs[r].reports = <<"no token", "token">>
        /\ runs[r].promise = "rejected"
        /\ Supplies("server", "port")

\* C13: a drain event logs the buffered amount at log level 1 and at log
\* level 2, and not at log level 0.
C13_DrainLoggedFromLevelOne ==
    last.op = "drain" =>
        (logLevel >= 1 <=> \E i \in 1..Len(last.logs) : last.logs[i].tag = "ws backpressure")

\* C14: every field of this.settings is the caller's value where the caller
\* supplied that field and the default otherwise, section by section, and a
\* section has no fields but the default ones and the supplied ones.
C14_SettingsShallowMerge ==
    LET defaults ==
            [server |-> [port |-> 8000, host |-> "0.0.0.0"],
             websockets |-> [path |-> "/", maxPayloadLength |-> 65536,
                             idleTimeout |-> 240, compression |-> 1, logLevel |-> 0]]
    IN  /\ DOMAIN settings = {"server", "websockets"}
        /\ \A sec \in {"server", "websockets"} :
              /\ DOMAIN settings[sec] = DOMAIN defaults[sec]
              /\ \A f \in DOMAIN defaults[sec] :
                    settings[sec][f] = IF Supplies(sec, f) THEN given.obj[sec][f]
                                       ELSE defaults[sec][f]
        /\ logLevel = settings.websockets.logLevel

\* ... one field of each section supplied, the others at their defaults
C14_Witness ==
    /\ given.kind = "object" /\ DOMAIN given.obj = {"server", "websockets"}
    /\ DOMAIN given.obj.server = {"port"} /\ DOMAIN given.obj.websockets = {"idleTimeout"}
    /\ settings.server.port = 9000 /\ settings.server.host = "0.0.0.0"
    /\ settings.websockets.idleTimeout = 60 /\ settings.websockets.maxPayloadLength = 65536

\* C15: every processMessage call is passed an identity, the one that is
\* bound to the socket of the message at the moment of the call; an identity
\* created for the message is created and bound before the call.
C15_BoundBeforeDispatch ==
    last.op = "message" =>
        \A i \in Events("processMessage") :
            /\ last.trace[i].arg # None
            /\ last.trace[i].arg = last.trace[i].bound
            /\ peerWs[last.trace[i].arg] = last.ws
            /\ \A j \in Events("bind") : j < i /\ last.trace[j].arg = last.trace[i].arg

\* ... the first message of a socket: bind, then processMessage
C15_Witness ==
    /\ last.op = "message" /\ last.pm = "ok"
    /\ Events("bind") = {1} /\ Events("processMessage") = {2}

\* C16: when the close handler calls disconnectPeer the socket has no
\* binding any more, and once the close handler of a socket has run the
\* socket has no binding, whether disconnectPeer returned or threw.
C16_UnboundBeforeDisconnect ==
    /\ \A i \in Events("disconnectPeer") :
          last.trace[i].bound = None /\ last.trace[i].arg # None
    /\ \A c \in Conns : closes[c] > 0 => peer[c] = None

\* ... disconnectPeer threw
C16_Witness ==
    /\ last.op = "close" /\ last.thrown = "DisconnectError"
    /\ Events("disconnectPeer") = {1}
    /\ peer[last.ws] = None

\* C17: when processMessage raises an error that is not a TrackerError the
\* handler calls no ws.close(): the socket stays open, its identity stays
\* bound, the count is unchanged; a message that follows on the socket is
\* dispatched with the same identity and a close that follows calls
\* disconnectPeer once, with that identity.
C17_UnexpectedLeavesSocketOpen ==
    [][\A c \in Conns :
          /\ (MessageStep(c) /\ last'.pm = "Error") =>
                /\ ~last'.closeReq
                /\ wsState'[c] = "open"
                /\ peer'[c] # None /\ peer'[c] = pmLog'[c][Len(pmLog'[c])]
                /\ webSocketsCount' = webSocketsCount
                /\ closes' = closes /\ dcLog' = dcLog
          /\ (last.op = "message" /\ last.pm = "Error" /\ last.ws = c) =>
                /\ (MessageStep(c) /\ last'.pm # "none") =>
                      pmLog'[c] = Append(pmLog[c], peer[c])
                /\ CloseRan(c) => dcLog'[c] = <<peer[c]>>
      ]_vars

C17_Witness ==
    /\ last.op = "message" /\ last.pm = "Error" /\ ~last.closeReq
    /\ wsState[last.ws] = "open" /\ peer[last.ws] # None
    /\ webSocketsCount = 1

C19_NothingAfterClose ==
    [][/\ \A c \in Conns :
            MessageStep(c) =>
                \A i \in 1..Len(pmLog'[c]) : i > Len(pmLog[c]) =>
                    \A d \in Conns : \A j \in 1..Len(dcLog[d]) :
                        dcLog[d][j] # pmLog'[c][i]
       /\ \A i \in 1..Len(last'.trace) :
            last'.trace[i].ev = "ws.close" =>
                /\ Len(last'.trace) <= i + 1
                /\ \A j \in (i + 1)..Len(last'.trace) : last'.trace[j].ev = "disconnectPeer"
                /\ \A c \in Conns : (MessageStep(c) /\ wsState'[c] = "closing") =>
                        i = Len(last'.trace)
      ]_vars

\* ... processMessage, then ws.close() with the close handler run inside it
C19_Witness ==
    /\ last.op = "message" /\ last.closeReq
    /\ Len(last.trace) = 3
    /\ last.trace[1].ev = "processMessage"
    /\ last.trace[2].ev = "ws.close"
    /\ last.trace[3].ev = "disconnectPeer"
    /\ last.trace[3].arg = last.trace[1].arg

\* C20: when the first decoded message of a socket is rejected with a
\* TrackerError its identity has been created and is still bound when the
\* socket closes, and the close calls disconnectPeer once with it.
C20_RejectedPeerIsDisconnected ==
    [][\A c \in Conns :
          /\ (MessageStep(c) /\ decoded[c] = 0 /\ last'.pm = "TrackerError") =>
                /\ created'[c] = 1
                /\ Len(pmLog'[c]) = 1
                /\ IF wsState'[c] = "closing"
                   THEN peer'[c] = pmLog'[c][1] /\ dcLog'[c] = <<>>
                   ELSE dcLog'[c] = pmLog'[c]
          /\ (wsState[c] = "closing" /\ pmLog[c] # <<>> /\ CloseRan(c)) =>
                dcLog'[c] = <<pmLog[c][1]>>
      ]_vars

\* ... the first message of the socket was rejected, the close ran inside
\* ws.close() and disconnected the identity created for the message
C20_Witness ==
    /\ last.op = "message" /\ last.pm = "TrackerError"
    /\ decoded[last.ws] = 1 /\ created[last.ws] = 1
    /\ dcLog[last.ws] = pmLog[last.ws] /\ Len(dcLog[last.ws]) = 1
====
